---- MODULE Spec2Model ----
(***************************************************************************)
(* The search-orchestration pipeline of azure_search_mcp: the stage graph  *)
(* of AzureSearchChain (chain.py) driven by run(), and the shared          *)
(* AzureSearchClient (azure_search.py) it calls.                           *)
(*                                                                         *)
(* One process is one call of AzureSearchChain.run() on the asyncio event  *)
(* loop.  A process takes one step per graph node; a node that awaits an   *)
(* external service is split at its suspension point, which is where other *)
(* processes may run.  Time is counted per process in whole units since    *)
(* run() was entered; only awaited external calls take time.               *)
(***************************************************************************)
EXTENDS Integers, Sequences, FiniteSets, TLC

(***************************************************************************)
(* Bounds of the model.                                                    *)
(***************************************************************************)
MaxQueryLen == 2
MaxTopK == 2
MaxDocs == 2

\* The longest document_ids string of a get_document_context call.
MaxIdsLen == 3

(***************************************************************************)
(* Program constants: the timeout budgets, and the retriever's default.    *)
(***************************************************************************)
RetrievalBudget == 25
ClientBudget == 30

\* handle_call_tool: wait_for(_execute_tool(), timeout=30.0)
ToolBudget == 30
NodeBudget == 45

\* Variant of RunBudget: a whole-run budget looser than the node's.
RunBudgetLoose == NodeBudget + 15

RunBudget == 25
DefaultRetrieverTopK == 5

(***************************************************************************)
(* Values.                                                                 *)
(***************************************************************************)
\* Optional[str]: None is the empty sequence, a string s is <<s>>.
None == <<>>

Some(s) == <<s>>

\* Python truthiness of an Optional[str].
Truthy(opt) == opt # None /\ opt[1] # ""

Chars == {" ", "q"}

Whitespace == {" "}

\* A query is a sequence of characters, so that strip() can be computed.
Queries == UNION {[1..n -> Chars] : n \in 0..MaxQueryLen}

TopKs == {0 - 1} \cup (0..MaxTopK)

Formats == {"summary", "analysis", "structured"}

\* SearchState.search_type; run() defaults it to "text".
SearchTypes == {"text", "hybrid"}

RECURSIVE LStrip(_)
LStrip(q) ==
    IF q # <<>> /\ Head(q) \in Whitespace THEN LStrip(Tail(q)) ELSE q

RECURSIVE RStrip(_)
RStrip(q) ==
    IF q # <<>> /\ q[Len(q)] \in Whitespace
    THEN RStrip(SubSeq(q, 1, Len(q) - 1))
    ELSE q

\* str.strip()
Strip(q) == RStrip(LStrip(q))

\* The text of a query (the characters joined).
RECURSIVE Text(_)
Text(q) == IF q = <<>> THEN "" ELSE Head(q) \o Text(Tail(q))

\* f"{elapsed:.2f}" for a whole number of units.
Fmt2(n) == ToString(n) \o ".00"

(***************************************************************************)
(* Documents.  The retrieval service returns langchain Documents; the      *)
(* chain turns them into dictionaries.                                     *)
(***************************************************************************)
EmptyDict == [k \in {} |-> ""]

\* {**a, **b}: the keys of both, b's value where both have the key.
Merge(a, b) ==
    [k \in DOMAIN a \cup DOMAIN b |-> IF k \in DOMAIN b THEN b[k] ELSE a[k]]

\* The Documents the index holds: one with a title, one without the title
\* field, one whose title field is the empty string.
ServiceDocs ==
    { [page_content |-> "x", metadata |-> [title |-> "A"]],
      [page_content |-> "y", metadata |-> EmptyDict],
      [page_content |-> "z", metadata |-> [title |-> ""]] }

\* Variant of DocumentsToDict: the dictionaries are built last to first.
RECURSIVE DocumentsToDictReversed(_)
DocumentsToDictReversed(docs) ==
    IF docs = <<>> THEN <<>>
    ELSE DocumentsToDictReversed(Tail(docs))
         \o <<Merge([content |-> Head(docs).page_content],
                    Head(docs).metadata)>>

\* AzureSearchClient.documents_to_dict
RECURSIVE DocumentsToDict(_)
DocumentsToDict(docs) ==
    IF docs = <<>> THEN <<>>
    ELSE <<Merge([content |-> Head(docs).page_content], Head(docs).metadata)>>
         \o DocumentsToDict(Tail(docs))

\* dict.get(key, default)
Get(d, key, default) == IF key \in DOMAIN d THEN d[key] ELSE default

(***************************************************************************)
(* SearchState and the pure parts of the graph nodes.                      *)
(***************************************************************************)
\* run(): initial_state
InitialState(query, search_type, top_k, output_format) ==
    [query |-> query, search_type |-> search_type, top_k |-> top_k,
     output_format |-> output_format, documents |-> <<>>, context |-> "",
     raw_context |-> "", metadata |-> EmptyDict, error |-> None]

\* Variant of ValidationError: the query is tested without strip().
ValidationErrorNoStrip(query, top_k) ==
    IF query = <<>> THEN Some("Query cannot be empty")
    ELSE IF top_k <= 0 THEN Some("top_k must be greater than 0")
    ELSE None

\* Variant of ValidationError: top_k = 0 is accepted.
ValidationErrorNegativeOnly(query, top_k) ==
    IF Strip(query) = <<>> THEN Some("Query cannot be empty")
    ELSE IF top_k < 0 THEN Some("top_k must be greater than 0")
    ELSE None

\* _validate_input: the error it records, None when the input is accepted.
ValidationError(query, top_k) ==
    IF Strip(query) = <<>> THEN Some("Query cannot be empty")
    ELSE IF top_k <= 0 THEN Some("top_k must be greater than 0")
    ELSE None

\* _validate_input
ValidateInputNode(state) ==
    LET e == ValidationError(state.query, state.top_k)
    IN  IF e = None THEN state ELSE [state EXCEPT !.error = e]

\* Variant of ShouldContinueAfterValidation: the query decides, not the
\* error.
ShouldContinueAfterValidationOnQuery(state) ==
    IF Strip(state.query) = <<>> THEN "error" ELSE "continue"

\* _should_continue_after_validation
ShouldContinueAfterValidation(state) ==
    IF Truthy(state.error) THEN "error" ELSE "continue"

\* Variant of ShouldContinueAfterSearch: an empty result is an error.
ShouldContinueAfterSearchOnEmpty(state) ==
    IF Truthy(state.error) \/ state.documents = <<>> THEN "error"
    ELSE "continue"

\* _should_continue_after_search
ShouldContinueAfterSearch(state) ==
    IF Truthy(state.error) THEN "error" ELSE "continue"

\* Variant of RouteToProcessor: every format but "summary" is analysed.
RouteToProcessorDefaultAnalysis(state) ==
    IF state.output_format = "summary" THEN "summary" ELSE "analysis"

\* _route_to_processor
RouteToProcessor(state) == state.output_format

\* Variant of AfterValidation: an accepted request goes straight to
\* prepare_context.
AfterValidationSkipSearch(label) ==
    IF label = "continue" THEN "prepare_context" ELSE "handle_error"

\* Variant of AfterValidation: the search follows whatever the label is.
AfterValidationAlwaysSearch(label) == "search_documents"

\* _build_graph: the node each conditional edge's label leads to.
AfterValidation(label) ==
    IF label = "continue" THEN "search_documents" ELSE "handle_error"

\* Variant of AfterSearch: handle_error follows whatever the label is.
AfterSearchToError(label) == "handle_error"

AfterSearch(label) ==
    IF label = "continue" THEN "prepare_context" ELSE "handle_error"

\* _build_graph: the labels the conditional edge after prepare_context
\* maps; any other label raises KeyError inside graph.ainvoke.
RouteLabels == {"summary", "analysis", "structured"}

AfterPrepare(label) ==
    CASE label = "summary" -> "summarize_results"
      [] label = "analysis" -> "analyze_results"
      [] label = "structured" -> "format_structured"

END == "__end__"

\* Variant of AfterStrategy: a strategy node that recorded an error is
\* followed by handle_error.
AfterStrategyOnError(state) ==
    IF Truthy(state.error) THEN "handle_error" ELSE END

\* _build_graph: the edges from the three strategy nodes, whatever the
\* state they return.
AfterStrategy(state) == END

\* _prepare_context: section i of the context.
DocSection(doc, i) ==
    "## " \o Get(doc, "title", "Document " \o ToString(i)) \o "\n\n"
          \o Get(doc, "content", "")

RECURSIVE JoinSections(_, _)
JoinSections(documents, i) ==
    IF i > Len(documents) THEN ""
    ELSE IF i = Len(documents) THEN DocSection(documents[i], i)
    ELSE DocSection(documents[i], i) \o "\n\n---\n\n"
         \o JoinSections(documents, i + 1)

\* Variant of ContextBuilder: no sentinel, an empty list joins to "".
ContextBuilderNoSentinel(documents) == JoinSections(documents, 1)

\* _prepare_context: the raw context of a document list.
ContextBuilder(documents) ==
    IF documents = <<>> THEN "No documents found for the given query."
    ELSE JoinSections(documents, 1)

\* _prepare_context
PrepareContextNode(state) ==
    [state EXCEPT !.raw_context = ContextBuilder(state.documents)]

\* str(x) of an Optional[str] inside an f-string.
Str(opt) == IF opt = None THEN "None" ELSE opt[1]

\* Variant of HandleErrorNode: the error is cleared once it is rendered.
HandleErrorNodeClearing(state) ==
    [state EXCEPT !.context = "Error: " \o Str(state.error), !.error = None]

\* _handle_error; the "error" key is always present, so the default of
\* state.get("error", ...) is never taken.
HandleErrorNode(state) ==
    [state EXCEPT !.context = "Error: " \o Str(state.error)]

\* Variant of SummarizeUnavailable: the raw context is returned instead of
\* an error.
SummarizeUnavailableFallback(state) ==
    [state EXCEPT !.context = state.raw_context]

\* Variant of StructuredFallback: the text is built from context instead
\* of raw_context.
StructuredFallbackFromContext(state) ==
    [state EXCEPT
       !.context = "Found " \o ToString(Len(state.documents))
                   \o " documents.\n\n" \o state.context]

\* The three strategy nodes when no model is configured.
SummarizeUnavailable(state) ==
    [state EXCEPT
       !.error = Some("Summarizer chain is not available (LLM not configured).")]

AnalyzeUnavailable(state) ==
    [state EXCEPT
       !.error = Some("Analyzer chain is not available (LLM not configured).")]

StructuredFallback(state) ==
    [state EXCEPT
       !.context = "Found " \o ToString(Len(state.documents))
                   \o " documents.\n\n" \o state.raw_context]

\* Variant of ResponseSuccess: success read off the text instead of the error.
ResponseSuccessFromContext(result) == result.context # ""

\* run(): success of the response.
ResponseSuccess(result) == ~Truthy(result.error)

\* Variant of FinalResult: used_llm reports a model only for a run without
\* error.
FinalResultUsedLlmOnSuccess(result, llm_configured) ==
    [context |-> result.context,
     metadata |-> [total_results |-> Len(result.documents),
                   search_type |-> result.search_type,
                   query |-> result.query,
                   output_format |-> result.output_format,
                   used_llm |-> llm_configured /\ ~Truthy(result.error)],
     documents |-> result.documents,
     success |-> ResponseSuccess(result)]

\* Variant of FinalResult: total_results reports the requested count.
FinalResultRequestedCount(result, llm_configured) ==
    [context |-> result.context,
     metadata |-> [total_results |-> result.top_k,
                   search_type |-> result.search_type,
                   query |-> result.query,
                   output_format |-> result.output_format,
                   used_llm |-> llm_configured],
     documents |-> result.documents,
     success |-> ResponseSuccess(result)]

\* run(): the metadata and the response built from the graph's result.
FinalResult(result, llm_configured) ==
    [context |-> result.context,
     metadata |-> [total_results |-> Len(result.documents),
                   search_type |-> result.search_type,
                   query |-> result.query,
                   output_format |-> result.output_format,
                   used_llm |-> llm_configured],
     documents |-> result.documents,
     success |-> ResponseSuccess(result)]

(***************************************************************************)
(* Exceptions and the handlers that catch them.                            *)
(***************************************************************************)
Exc(type, msg) == [type |-> type, msg |-> msg]

\* chain.py never imports sys, so every evaluation of sys.stderr in it
\* raises NameError.
SysImported == FALSE

SysNameError == Exc("NameError", "name 'sys' is not defined")

\* A node's or handler's result: a new state, or an exception.
Ok(state) == [kind |-> "state", state |-> state]

Raise(exc) == [kind |-> "raise", exc |-> exc]

\* asyncio.CancelledError, thrown into a task at the await it is suspended at.
CancelledError == Exc("CancelledError", "")

\* Variant of IsException: CancelledError derived from Exception.
IsExceptionLegacy(exc) == TRUE

\* Whether `except Exception` catches exc: CancelledError derives from
\* BaseException.
IsException(exc) == exc.type # "CancelledError"

\* try: ... except Exception: `handled`, when the body raised exc.
Caught(exc, handled) == IF IsException(exc) THEN handled ELSE Raise(exc)

\* ", ".join(names)
RECURSIVE JoinComma(_)
JoinComma(names) ==
    IF names = <<>> THEN ""
    ELSE IF Len(names) = 1 THEN Head(names)
    ELSE Head(names) \o ", " \o JoinComma(Tail(names))

\* AzureSearchClient.__init__: _init_error for a configuration (which of
\* the three settings are non-empty).
ClientInitError(cfg) ==
    IF cfg.endpoint /\ cfg.api_key /\ cfg.index_name THEN None
    ELSE Some("Azure Search configuration is incomplete. Missing environment variables: "
              \o JoinComma(
                   (IF cfg.endpoint THEN <<>> ELSE <<"AZURE_SEARCH_ENDPOINT">>)
                   \o (IF cfg.api_key THEN <<>> ELSE <<"AZURE_SEARCH_API_KEY">>)
                   \o (IF cfg.index_name THEN <<>>
                       ELSE <<"AZURE_SEARCH_INDEX_NAME">>)))

\* The configurations the model starts from.
AzureConfigs ==
    { [endpoint |-> TRUE, api_key |-> TRUE, index_name |-> TRUE],
      [endpoint |-> TRUE, api_key |-> FALSE, index_name |-> TRUE],
      [endpoint |-> FALSE, api_key |-> FALSE, index_name |-> FALSE] }

\* Variant of RetrieverTopKAfter: the retriever keeps the value it has.
RetrieverTopKKept(current, top_k) == current

\* AzureSearchClient.search_documents: the shared retriever's top_k after
\* "if self.retriever.top_k != top_k: self.retriever.top_k = top_k".
RetrieverTopKAfter(current, top_k) ==
    IF current # top_k THEN top_k ELSE current

\* AzureSearchClient.search_documents: the exceptions it raises.
NotConfiguredError(init_err) ==
    Exc("Exception", "Azure Search not properly configured: " \o Str(init_err))

ClientTimeoutError(elapsed) ==
    Exc("Exception",
        "Azure Search timed out after " \o Fmt2(elapsed) \o " seconds")

ClientSearchError(detail) ==
    Exc("Exception", "Error searching documents: " \o detail)

\* _search_documents: except asyncio.TimeoutError
SearchDocumentsTimeout(state, elapsed) ==
    Ok([state EXCEPT
          !.error = Some("Node search timed out after " \o Fmt2(elapsed)
                         \o " seconds"),
          !.documents = <<>>])

\* _search_documents: except Exception as e
SearchDocumentsExcept(state, e) ==
    IF SysImported
    THEN Ok([state EXCEPT !.error = Some("Search error: " \o e.msg),
                          !.documents = <<>>])
    ELSE Raise(SysNameError)

\* _summarize_results: except Exception as e
SummarizeExcept(state, e) ==
    IF SysImported
    THEN Ok([state EXCEPT !.error = Some("Error during summarization: " \o e.msg)])
    ELSE Raise(SysNameError)

\* _analyze_results: except Exception as e
AnalyzeExcept(state, e) ==
    IF SysImported
    THEN Ok([state EXCEPT !.error = Some("Error during analysis: " \o e.msg)])
    ELSE Raise(SysNameError)

\* _format_results_structured: except Exception as e
StructuredExcept(state, e) ==
    Ok([state EXCEPT
          !.error = Some("Error during structured formatting: " \o e.msg)])

\* run(): except asyncio.TimeoutError -- what run() raises.
RunTimeoutRaises ==
    IF SysImported
    THEN Exc("Exception", "Chain graph execution timed out after 25 seconds")
    ELSE SysNameError

\* run(): except Exception as e -- what run() raises.
RunExceptRaises(e) == IF SysImported THEN e ELSE SysNameError

(***************************************************************************)
(* asyncio.wait_for: the timers armed around an awaited call.  A timer is  *)
(* [name, deadline], the deadline in the process's own clock; the          *)
(* sequence lists them outermost first, the order they were armed in.      *)
(***************************************************************************)
Timer(name, deadline) == [name |-> name, deadline |-> deadline]

MinDeadline(timers) ==
    CHOOSE d \in {timers[i].deadline : i \in DOMAIN timers} :
        \A i \in DOMAIN timers : d <= timers[i].deadline

\* The timer that fires first: the earliest deadline, and of two timers
\* with the same deadline the one armed first (the outer one).
FirstTimer(timers) ==
    timers[CHOOSE i \in DOMAIN timers :
              /\ timers[i].deadline = MinDeadline(timers)
              /\ \A j \in DOMAIN timers :
                    timers[j].deadline = MinDeadline(timers) => i <= j]

\* Variant of Awaited: no timer ever fires.
AwaitedWithoutTimers(now, latency, timers) == "result"

\* An awaited call that needs `latency` units, begun at `now`: "result" when
\* it answers before every deadline, else the name of the timer that fires.
Awaited(now, latency, timers) ==
    IF now + latency < MinDeadline(timers) THEN "result"
    ELSE FirstTimer(timers).name

\* The process's clock when the awaited call ends.
TimeAfter(now, latency, timers) ==
    IF now + latency < MinDeadline(timers) THEN now + latency
    ELSE MinDeadline(timers)

(***************************************************************************)
(* The external services.                                                  *)
(***************************************************************************)
\* How long an awaited call may take to answer.
Latencies == {0, 10, RetrievalBudget - 1, RetrievalBudget, NodeBudget + 1}

Min(a, b) == IF a < b THEN a ELSE b

\* What retriever.invoke may answer when asked for k results.
RetrievalResults(k) ==
    {[kind |-> "ok", docs |-> d] :
        d \in UNION {[1..n -> ServiceDocs] : n \in 0..Min(k, MaxDocs)}}
    \cup {[kind |-> "fail", detail |-> "503 Service Unavailable"]}

\* What a strategy chain's ainvoke may answer.
CompletionResults ==
    {[kind |-> "ok", text |-> "generated text"],
     [kind |-> "fail", detail |-> "429 quota exceeded"]}

(***************************************************************************)
(* The tool boundary: handle_call_tool and get_document_context_tool.      *)
(***************************************************************************)
\* Variant of InitWarnings: a missing Gemini key is not a warning.
InitWarningsAzureOnly(cfg, gemini_key) ==
    IF cfg.endpoint /\ cfg.api_key /\ cfg.index_name THEN <<>>
    ELSE <<"Azure Search configuration incomplete.">>

\* AzureSearchMCPServer._check_configuration: _init_warnings.
InitWarnings(cfg, gemini_key) ==
    LET missing_azure ==
            (IF cfg.endpoint THEN <<>> ELSE <<"AZURE_SEARCH_ENDPOINT">>)
            \o (IF cfg.api_key THEN <<>> ELSE <<"AZURE_SEARCH_API_KEY">>)
            \o (IF cfg.index_name THEN <<>> ELSE <<"AZURE_SEARCH_INDEX_NAME">>)
    IN  (IF missing_azure = <<>> THEN <<>>
         ELSE <<"Azure Search configuration incomplete. Missing: "
                \o JoinComma(missing_azure)
                \o ". Search functionality will be disabled.">>)
        \o (IF gemini_key THEN <<>>
            ELSE <<"Gemini API key not found. LLM-based formatting will be disabled.">>)

\* "\n".join(f"* {w}" for w in warnings); the bullet is written "*" here.
RECURSIVE JoinBullets(_)
JoinBullets(warnings) ==
    IF warnings = <<>> THEN ""
    ELSE IF Len(warnings) = 1 THEN "* " \o Head(warnings)
    ELSE "* " \o Head(warnings) \o "\n" \o JoinBullets(Tail(warnings))

\* handle_call_tool: the text of a search tool that is disabled; the cross
\* mark that begins it is written "[x]" here.
DisabledText(warnings) ==
    "[x] Search functionality is disabled due to configuration issues:\n"
    \o JoinBullets(warnings)
    \o "\n\nPlease set the required environment variables and restart the server."

\* An argument the call does not carry.
Absent == <<>>

\* arguments.get(key, default)
Arg(opt, default) == IF opt = Absent THEN default ELSE opt[1]

\* handle_call_tool: the defaults of search_documents' optional arguments,
\* and the ones its input schema advertises.
DefaultTopK == 5

DefaultFormatType == "structured"

SchemaDefaultTopK == 5

SchemaDefaultFormatType == "summary"

\* The tools of _get_available_tools that run the chain, and the
\* output_format the last two fix.
SearchTools == {"search_documents", "search_and_summarize", "search_with_analysis"}

\* handle_call_tool: the output_format a search tool calls run() with.
ToolFormat(name, format_type) ==
    CASE name = "search_documents" -> Arg(format_type, DefaultFormatType)
      [] name = "search_and_summarize" -> "summary"
      [] name = "search_with_analysis" -> "analysis"

\* handle_call_tool: the texts of its own failures.
UnknownToolText(name) == "Error: Unknown tool: " \o name

ToolTimeoutText(elapsed) ==
    "Error: Tool call timed out after " \o Fmt2(elapsed)
    \o "s. The search service may be experiencing delays."

\* str(KeyError(key))
KeyError(key) == Exc("KeyError", "'" \o key \o "'")

\* document_ids.split(",")
RECURSIVE SplitComma(_)
SplitComma(s) ==
    IF \A i \in DOMAIN s : s[i] # ","
    THEN <<s>>
    ELSE LET i == CHOOSE i \in DOMAIN s :
                     s[i] = "," /\ \A j \in 1..(i - 1) : s[j] # ","
         IN  <<SubSeq(s, 1, i - 1)>> \o SplitComma(SubSeq(s, i + 1, Len(s)))

NonEmpty(s) == s # <<>>

\* Variant of ParseIds: the parts are neither stripped nor tested stripped.
ParseIdsUnstripped(document_ids) ==
    LET parts == SplitComma(document_ids)
        kept == SelectSeq(parts, NonEmpty)
    IN  [i \in DOMAIN kept |-> Text(kept[i])]

\* get_document_context_tool: [id.strip() for id in split(",") if id.strip()]
ParseIds(document_ids) ==
    LET parts == SplitComma(document_ids)
        kept == SelectSeq([i \in DOMAIN parts |-> Strip(parts[i])], NonEmpty)
    IN  [i \in DOMAIN kept |-> Text(kept[i])]

\* get_document_context_tool: one document's block.
LookupBlock(doc) ==
    "**" \o Get(doc.metadata, "title", "Untitled") \o "**\n"
    \o (IF doc.page_content = "" THEN "No content available"
        ELSE doc.page_content)

RECURSIVE JoinBlocks(_)
JoinBlocks(documents) ==
    IF documents = <<>> THEN ""
    ELSE IF Len(documents) = 1 THEN LookupBlock(Head(documents))
    ELSE LookupBlock(Head(documents)) \o "\n\n---\n\n"
         \o JoinBlocks(Tail(documents))

\* Variant of LookupText: without the test for an empty list.
LookupTextJoinOnly(documents) == JoinBlocks(documents)

\* get_document_context_tool, once get_document_context returned.
LookupText(documents) ==
    IF documents = <<>> THEN "No documents found for the provided IDs"
    ELSE JoinBlocks(documents)

NoValidIdsText == "Error: No valid document IDs provided"

\* AzureSearchClient.get_document_by_id, given how search_documents ended:
\* the first document, None (<<>>), or the wrapped exception.
GetDocumentById(id, out) ==
    IF out.kind = "return"
    THEN [kind |-> "doc",
          doc |-> IF out.docs = <<>> THEN <<>> ELSE <<out.docs[1]>>]
    ELSE Raise(Exc("Exception",
                   "Error retrieving document " \o id \o ": " \o out.exc.msg))

\* Variant of LookupAppend: a failed id discards the documents found so far.
LookupAppendOrReset(found, got) ==
    IF got.kind = "doc" /\ got.doc # <<>> THEN Append(found, got.doc[1])
    ELSE IF got.kind = "doc" THEN found
    ELSE <<>>

\* AzureSearchClient.get_document_context: the documents after one more id.
LookupAppend(found, got) ==
    IF got.kind = "doc" /\ got.doc # <<>> THEN Append(found, got.doc[1])
    ELSE found

(***************************************************************************)
(* State.                                                                  *)
(***************************************************************************)
VARIABLES
    azure_config,     \* config.azure_search: which settings are non-empty
    llm,              \* AzureSearchChain.llm is configured
    init_error,       \* AzureSearchClient._init_error
    retriever_top_k,  \* AzureSearchClient.retriever.top_k, shared by all runs
    proc              \* the calls of run() in progress

vars == <<azure_config, llm, init_error, retriever_top_k, proc>>

Procs == {"r1", "r2"}

\* The one call of the sequential specification.
SeqProcs == {"r1"}

NoOutcome == [kind |-> "none"]

NoArguments ==
    [query |-> Absent, top_k |-> Absent, format_type |-> Absent,
     document_ids |-> <<>>]

Idle ==
    [pc |-> "idle",
     request |-> [query |-> <<>>, search_type |-> "text", top_k |-> 0,
                  output_format |-> "analysis"],
     state |-> InitialState(<<>>, "text", 0, "analysis"),
     now |-> 0,            \* units since run() was entered
     timers |-> <<>>,      \* the wait_for timers armed
     used_top_k |-> <<>>,  \* the top_k retriever.invoke read, once it ran
     latency |-> <<>>,     \* how long the retrieval service needed
     node |-> "",          \* the node suspended at an awaited call
     visited |-> <<>>,     \* the nodes executed, in order
     fired |-> <<>>,       \* the timers that fired
     client_raised |-> <<>>,  \* the exception search_documents raised, if any
     error_writes |-> 0,   \* assignments to state["error"]
     retrievals |-> 0,     \* retrieval calls issued
     completions |-> 0,    \* completion calls issued
     retrieval_answer |-> <<>>,   \* what the run's retrieval call answered
     completion_answer |-> <<>>,  \* what the run's completion call answered
     cancelled_at |-> <<>>,  \* the node the caller's cancellation interrupted
     tool |-> "",          \* the tool handle_call_tool was called for, if any
     arguments |-> NoArguments,  \* and its arguments
     started |-> <<>>,     \* the arguments run() was called with, if it was
     ids |-> <<>>,         \* get_document_context_tool: the ids to look up
     attempts |-> <<>>,    \* the ids looked up, and how each lookup ended
     found |-> <<>>,       \* get_document_context: documents
     tool_result |-> NoOutcome,  \* what handle_call_tool gave its caller
     outcome |-> NoOutcome]

Init ==
    /\ azure_config \in AzureConfigs
    /\ llm \in BOOLEAN
    /\ init_error = ClientInitError(azure_config)
    /\ retriever_top_k = DefaultRetrieverTopK
    /\ proc = [p \in Procs |-> Idle]

\* run() returns the response built from the graph's final state.
Returned(response, state) ==
    [kind |-> "returned", response |-> response, state |-> state]

\* run() raises.
Raised(exc) == [kind |-> "raised", exc |-> exc]

\* Variant of Set: one SearchState object used by every call in progress.
SetShared(p, rec) ==
    proc' = [q \in Procs |->
                IF q = p THEN rec
                ELSE IF proc[q].pc \in {"idle", "done"} THEN proc[q]
                ELSE [proc[q] EXCEPT !.state = rec.state]]

\* A call's step changes that call's record only: run() builds its own
\* SearchState, and the graph hands that object from node to node.
Set(p, rec) == proc' = [proc EXCEPT ![p] = rec]

\* The node has run and returned `state`; the graph goes on at `next`.
Step(p, node, state, next) ==
    [proc[p] EXCEPT !.pc = next, !.state = state,
                    !.visited = Append(@, node),
                    !.error_writes =
                        IF state.error # proc[p].state.error THEN @ + 1 ELSE @]

\* The node raised `exc` inside graph.ainvoke: run()'s except Exception.
Crash(p, node, exc) ==
    [proc[p] EXCEPT !.pc = "done", !.timers = <<>>,
                    !.visited = Append(@, node),
                    !.outcome = Raised(RunExceptRaises(exc))]

\* What a node's result does to the run.
Continue(p, node, result, next) ==
    IF result.kind = "state" THEN Step(p, node, result.state, next)
    ELSE Crash(p, node, result.exc)

(***************************************************************************)
(* run() and the graph nodes.                                              *)
(***************************************************************************)
\* run() is entered: the initial state, and wait_for(graph.ainvoke, 25).
Start(p, query, search_type, top_k, output_format) ==
    /\ proc[p].pc = "idle"
    /\ Set(p, [Idle EXCEPT
                 !.pc = "validate_input",
                 !.request = [query |-> query, search_type |-> search_type,
                              top_k |-> top_k,
                              output_format |-> output_format],
                 !.state = InitialState(query, search_type, top_k,
                                        output_format),
                 !.timers = <<Timer("run", RunBudget)>>])
    /\ UNCHANGED <<azure_config, llm, init_error, retriever_top_k>>

ValidateInput(p) ==
    /\ proc[p].pc = "validate_input"
    /\ LET state == ValidateInputNode(proc[p].state)
       IN  Set(p, Step(p, "validate_input", state,
                       AfterValidation(ShouldContinueAfterValidation(state))))
    /\ UNCHANGED <<azure_config, llm, init_error, retriever_top_k>>

\* AzureSearchClient.search_documents, from its awaited retriever call on:
\* `what` is how the await ended, `res` the service's answer.
ClientSearch(what, res, elapsed) ==
    CASE what = "result" /\ res.kind = "ok" ->
            [kind |-> "return", docs |-> res.docs]
      [] what = "result" /\ res.kind = "fail" ->
            [kind |-> "raise", exc |-> ClientSearchError(res.detail)]
      [] what \in {"retrieval", "client"} ->
            [kind |-> "raise", exc |-> ClientTimeoutError(elapsed)]
      [] OTHER -> [kind |-> "cancelled", by |-> what]

\* _search_documents, given how the client's search_documents ended.
SearchDocumentsNode(state, out, elapsed) ==
    CASE out.kind = "return" ->
            Ok([state EXCEPT !.documents = DocumentsToDict(out.docs)])
      [] out.kind = "raise" -> SearchDocumentsExcept(state, out.exc)
      [] out.kind = "cancelled" -> SearchDocumentsTimeout(state, elapsed)

\* The graph goes on after search_documents returned `result`.
AfterSearchResult(p, result) ==
    Continue(p, "search_documents", result,
             IF result.kind = "state"
             THEN AfterSearch(ShouldContinueAfterSearch(result.state))
             ELSE "done")

\* handle_call_tool returns `text`.
ToolText(text) == [kind |-> "text", text |-> text]

\* handle_call_tool: wait_for(_execute_tool(), 30) timed out.
ToolTimedOut(p, at) ==
    [proc[p] EXCEPT !.pc = "tool_done", !.now = at, !.timers = <<>>, !.node = "",
                    !.fired = Append(@, "tool"),
                    !.tool_result = ToolText(ToolTimeoutText(at))]

\* wait_for(graph.ainvoke, 25) timed out: the graph is cancelled where it
\* awaits, and run() raises from its except asyncio.TimeoutError.
RunTimedOut(p, at) ==
    [proc[p] EXCEPT !.pc = "done", !.now = at, !.timers = <<>>, !.node = "",
                    !.fired = Append(@, "run"),
                    !.outcome = Raised(RunTimeoutRaises)]

\* _search_documents up to its suspension: the node arms its 45-unit timer
\* and calls the client, which raises at once when it is not configured,
\* and else sets the shared retriever's top_k, arms its 30- and 25-unit
\* timers and hands retriever.invoke to the executor.
SearchDocumentsBegin(p) ==
    /\ proc[p].pc = "search_documents"
    /\ IF Truthy(init_error)
       THEN /\ Set(p, [AfterSearchResult(p,
                          SearchDocumentsNode(proc[p].state,
                              [kind |-> "raise",
                               exc |-> NotConfiguredError(init_error)],
                              0))
                         EXCEPT !.client_raised =
                                   <<NotConfiguredError(init_error)>>])
            /\ UNCHANGED retriever_top_k
       ELSE /\ retriever_top_k' =
                  RetrieverTopKAfter(retriever_top_k, proc[p].state.top_k)
            /\ Set(p, [proc[p] EXCEPT
                         !.pc = "executor_queued",
                         !.node = "search_documents",
                         !.retrievals = @ + 1,
                         !.timers = @ \o
                            <<Timer("node", proc[p].now + NodeBudget),
                              Timer("client", proc[p].now + ClientBudget),
                              Timer("retrieval", proc[p].now + RetrievalBudget)>>])
    /\ UNCHANGED <<azure_config, llm, init_error>>

\* The executor thread runs retriever.invoke, which reads the shared top_k.
ExecutorInvoke(p) ==
    /\ proc[p].pc = "executor_queued"
    /\ Set(p, [proc[p] EXCEPT !.pc = "in_service",
                              !.used_top_k = <<retriever_top_k>>])
    /\ UNCHANGED <<azure_config, llm, init_error, retriever_top_k>>

\* The awaited retrieval ends: the service answers, or a timer fires.
RetrievalEnds(p, latency, res) ==
    /\ proc[p].pc = "in_service"
    /\ res.kind = "ok" => Len(res.docs) <= proc[p].used_top_k[1]
    /\ LET me == proc[p]
           what == Awaited(me.now, latency, me.timers)
           at == TimeAfter(me.now, latency, me.timers)
       IN  IF what = "tool"
           THEN Set(p, [ToolTimedOut(p, at) EXCEPT !.latency = <<latency>>])
           ELSE IF what = "run"
           THEN Set(p, [RunTimedOut(p, at) EXCEPT !.latency = <<latency>>])
           ELSE LET out == ClientSearch(what, res, at - me.now)
                    result == SearchDocumentsNode(me.state, out, at - me.now)
                    after == AfterSearchResult(p, result)
                IN  Set(p, [after EXCEPT
                              !.latency = <<latency>>,
                              !.retrieval_answer =
                                  IF what = "result" THEN <<res>> ELSE @,
                              !.client_raised =
                                  IF out.kind = "raise" THEN <<out.exc>> ELSE @,
                              !.now = at,
                              !.node = "",
                              !.timers = IF after.pc = "done" THEN <<>>
                                         ELSE SubSeq(me.timers, 1, Len(me.timers) - 3),
                              !.fired = IF what = "result" THEN @
                                        ELSE Append(@, what)])
    /\ UNCHANGED <<azure_config, llm, init_error, retriever_top_k>>

PrepareContext(p) ==
    /\ proc[p].pc = "prepare_context"
    /\ LET state == PrepareContextNode(proc[p].state)
           label == RouteToProcessor(state)
       IN  IF label \in RouteLabels
           THEN Set(p, Step(p, "prepare_context", state, AfterPrepare(label)))
           ELSE Set(p, Crash(p, "prepare_context", KeyError(label)))
    /\ UNCHANGED <<azure_config, llm, init_error, retriever_top_k>>

\* A strategy node up to its suspension: it returns at once when no model
\* is configured, and else awaits its chain's ainvoke.
StrategyBegin(p, node, unavailable) ==
    /\ proc[p].pc = node
    /\ IF ~llm
       THEN Set(p, Step(p, node, unavailable, AfterStrategy(unavailable)))
       ELSE Set(p, [proc[p] EXCEPT !.pc = "in_completion", !.node = node,
                                   !.completions = @ + 1])
    /\ UNCHANGED <<azure_config, llm, init_error, retriever_top_k>>

Summarize(p) ==
    StrategyBegin(p, "summarize_results", SummarizeUnavailable(proc[p].state))

Analyze(p) ==
    StrategyBegin(p, "analyze_results", AnalyzeUnavailable(proc[p].state))

FormatStructured(p) ==
    StrategyBegin(p, "format_structured", StructuredFallback(proc[p].state))

\* A strategy node from its awaited ainvoke on.
StrategyNode(node, state, res) ==
    IF res.kind = "ok" THEN Ok([state EXCEPT !.context = res.text])
    ELSE CASE node = "summarize_results" ->
                 SummarizeExcept(state, Exc("Exception", res.detail))
           [] node = "analyze_results" ->
                 AnalyzeExcept(state, Exc("Exception", res.detail))
           [] node = "format_structured" ->
                 StructuredExcept(state, Exc("Exception", res.detail))

\* The awaited completion ends: the model answers, or the run's timer fires.
CompletionEnds(p, latency, res) ==
    /\ proc[p].pc = "in_completion"
    /\ LET me == proc[p]
           what == Awaited(me.now, latency, me.timers)
           at == TimeAfter(me.now, latency, me.timers)
       IN  IF what = "tool"
           THEN Set(p, ToolTimedOut(p, at))
           ELSE IF what = "run"
           THEN Set(p, RunTimedOut(p, at))
           ELSE Set(p, [Continue(p, me.node,
                                 StrategyNode(me.node, me.state, res),
                                 AfterStrategy(
                                     StrategyNode(me.node, me.state, res).state))
                          EXCEPT !.now = at, !.node = "",
                                 !.completion_answer = <<res>>])
    /\ UNCHANGED <<azure_config, llm, init_error, retriever_top_k>>

\* The suspended node when CancelledError is thrown into its await.  In
\* search_documents the client's handlers see it first, then the node's.
NodeCancelled(node, state) ==
    IF node = "search_documents"
    THEN LET client == Caught(CancelledError,
                          Raise(ClientSearchError(CancelledError.msg)))
         IN  Caught(client.exc, SearchDocumentsExcept(state, client.exc))
    ELSE Caught(CancelledError,
                StrategyNode(node, state,
                             [kind |-> "fail", detail |-> CancelledError.msg]))

\* run() when graph.ainvoke raised exc.
RunRaises(exc) == IF IsException(exc) THEN RunExceptRaises(exc) ELSE exc

\* Variant of ToolCallOutcome: without the outer except Exception.
ToolCallOutcomePropagating(outcome) ==
    IF outcome.kind = "returned"
    THEN [kind |-> "text", text |-> outcome.response.context]
    ELSE Raise(outcome.exc)

\* handle_call_tool around search_chain.run(): what the tool's caller gets
\* for the run's outcome.  _execute_tool re-raises whatever it catches; the
\* outer except Exception turns an exception into a text.
ToolCallOutcome(outcome) ==
    IF outcome.kind = "returned"
    THEN [kind |-> "text", text |-> outcome.response.context]
    ELSE Caught(outcome.exc,
                [kind |-> "text",
                 text |-> "Error: Tool call failed: " \o outcome.exc.msg])

\* The timers armed outside the graph: handle_call_tool's and run()'s.
IsOuterTimer(timer) == timer.name \in {"tool", "run"}

\* The caller cancels the task while the run is suspended in its
\* retrieval or completion call.
Cancel(p) ==
    /\ proc[p].pc \in {"executor_queued", "in_service", "in_completion"}
    /\ LET me == proc[p]
           result == NodeCancelled(me.node, me.state)
       IN  IF result.kind = "raise"
           THEN Set(p, [me EXCEPT !.pc = "done", !.timers = <<>>, !.node = "",
                                  !.cancelled_at = <<me.node>>,
                                  !.outcome = Raised(RunRaises(result.exc))])
           ELSE Set(p, [Step(p, me.node, result.state,
                             IF me.node = "search_documents"
                             THEN AfterSearch(
                                      ShouldContinueAfterSearch(result.state))
                             ELSE END)
                          EXCEPT !.node = "",
                                 !.cancelled_at = <<me.node>>,
                                 !.timers = SelectSeq(me.timers, IsOuterTimer)])
    /\ UNCHANGED <<azure_config, llm, init_error, retriever_top_k>>

HandleError(p) ==
    /\ proc[p].pc = "handle_error"
    /\ Set(p, Step(p, "handle_error", HandleErrorNode(proc[p].state), END))
    /\ UNCHANGED <<azure_config, llm, init_error, retriever_top_k>>

\* run() after graph.ainvoke returned: the metadata and the response.
PostProcess(p) ==
    /\ proc[p].pc = END
    /\ Set(p, [proc[p] EXCEPT
                 !.pc = "done", !.timers = <<>>,
                 !.outcome = Returned(FinalResult(proc[p].state, llm),
                                      proc[p].state)])
    /\ UNCHANGED <<azure_config, llm, init_error, retriever_top_k>>

\* The caller has the outcome; the next call may begin.
Reset(p) ==
    /\ proc[p].pc = "done"
    /\ Set(p, Idle)
    /\ UNCHANGED <<azure_config, llm, init_error, retriever_top_k>>

(***************************************************************************)
(* handle_call_tool.                                                       *)
(***************************************************************************)
\* handle_call_tool is entered and runs to its first await or to its end.
\* Its 30-unit timer is armed around everything it does.
ToolCall(p, name, arguments) ==
    /\ proc[p].pc = "idle"
    /\ LET called == [Idle EXCEPT !.tool = name, !.arguments = arguments]
           warnings == InitWarnings(azure_config, llm)
           ends(result) == [called EXCEPT !.pc = "tool_done",
                                          !.tool_result = result]
       IN  CASE name \in SearchTools /\ warnings # <<>> ->
                    Set(p, ends(ToolText(DisabledText(warnings))))
             [] name \in SearchTools /\ warnings = <<>>
                                     /\ arguments.query = Absent ->
                    Set(p, ends(Caught(KeyError("query"),
                                       ToolText("Error: Tool call failed: "
                                                \o KeyError("query").msg))))
             [] name \in SearchTools /\ warnings = <<>>
                                     /\ arguments.query # Absent ->
                    LET query == arguments.query[1]
                        top_k == Arg(arguments.top_k, DefaultTopK)
                        output_format == ToolFormat(name, arguments.format_type)
                    IN  Set(p, [called EXCEPT
                          !.pc = "validate_input",
                          !.request = [query |-> query, search_type |-> "text",
                                       top_k |-> top_k,
                                       output_format |-> output_format],
                          !.started = <<[query |-> query, top_k |-> top_k,
                                         output_format |-> output_format]>>,
                          !.state = InitialState(query, "text", top_k,
                                                 output_format),
                          !.timers = <<Timer("tool", ToolBudget),
                                       Timer("run", RunBudget)>>])
             [] name = "get_document_context" ->
                    LET ids == ParseIds(arguments.document_ids)
                    IN  IF ids = <<>>
                        THEN Set(p, ends(ToolText(NoValidIdsText)))
                        ELSE Set(p, [called EXCEPT
                               !.pc = "lookup", !.ids = ids,
                               !.timers = <<Timer("tool", ToolBudget)>>])
             [] OTHER -> Set(p, ends(ToolText(UnknownToolText(name))))
    /\ UNCHANGED <<azure_config, llm, init_error, retriever_top_k>>

\* get_document_context: the loop goes on after the lookup of `id`, which
\* the service answered with `answer` (<<>> when it did not) and
\* get_document_by_id ended with `got`; after the last id
\* get_document_context_tool renders the documents.
AfterLookup(p, id, answer, got, at) ==
    LET me == proc[p]
        found == LookupAppend(me.found, got)
        attempts == Append(me.attempts, [id |-> id, answer |-> answer])
        last == Len(attempts) = Len(me.ids)
    IN  [me EXCEPT !.attempts = attempts,
                   !.found = found,
                   !.now = at,
                   !.timers = IF last THEN <<>> ELSE <<me.timers[1]>>,
                   !.pc = IF last THEN "tool_done" ELSE "lookup",
                   !.tool_result = IF last THEN ToolText(LookupText(found))
                                   ELSE @]

\* get_document_by_id(id) up to its suspension: search_documents("id:...",
\* top_k=1) raises at once when the client is not configured, and else sets
\* the shared retriever's top_k, arms its timers and hands retriever.invoke
\* to the executor.
LookupBegin(p) ==
    /\ proc[p].pc = "lookup"
    /\ LET me == proc[p]
           id == me.ids[Len(me.attempts) + 1]
       IN  IF Truthy(init_error)
           THEN /\ Set(p, AfterLookup(p, id, <<>>,
                          GetDocumentById(id,
                              Raise(NotConfiguredError(init_error))),
                          me.now))
                /\ UNCHANGED retriever_top_k
           ELSE /\ retriever_top_k' = RetrieverTopKAfter(retriever_top_k, 1)
                /\ Set(p, [me EXCEPT
                             !.pc = "lookup_queued",
                             !.retrievals = @ + 1,
                             !.timers = @ \o
                                <<Timer("client", me.now + ClientBudget),
                                  Timer("retrieval", me.now + RetrievalBudget)>>])
    /\ UNCHANGED <<azure_config, llm, init_error>>

\* The executor thread runs retriever.invoke for the lookup.
LookupInvoke(p) ==
    /\ proc[p].pc = "lookup_queued"
    /\ Set(p, [proc[p] EXCEPT !.pc = "lookup_in_service",
                              !.used_top_k = <<retriever_top_k>>])
    /\ UNCHANGED <<azure_config, llm, init_error, retriever_top_k>>

\* The awaited lookup ends: the service answers, or a timer fires.
LookupEnds(p, latency, res) ==
    /\ proc[p].pc = "lookup_in_service"
    /\ res.kind = "ok" => Len(res.docs) <= proc[p].used_top_k[1]
    /\ LET me == proc[p]
           id == me.ids[Len(me.attempts) + 1]
           what == Awaited(me.now, latency, me.timers)
           at == TimeAfter(me.now, latency, me.timers)
       IN  IF what = "tool"
           THEN Set(p, ToolTimedOut(p, at))
           ELSE LET out == ClientSearch(what, res, at - me.now)
                IN  Set(p, [AfterLookup(p, id,
                                IF what = "result" THEN <<res>> ELSE <<>>,
                                GetDocumentById(id, out), at)
                              EXCEPT !.fired = IF what = "result" THEN @
                                               ELSE Append(@, what)])
    /\ UNCHANGED <<azure_config, llm, init_error, retriever_top_k>>

\* The caller cancels the task while a lookup is awaited.
LookupCancel(p) ==
    /\ proc[p].pc \in {"lookup_queued", "lookup_in_service"}
    /\ LET me == proc[p]
           id == me.ids[Len(me.attempts) + 1]
           out == Caught(CancelledError,
                         Raise(ClientSearchError(CancelledError.msg)))
       IN  IF out.exc = CancelledError
           THEN Set(p, [me EXCEPT !.pc = "tool_done", !.timers = <<>>,
                                  !.cancelled_at = <<"lookup">>,
                                  !.tool_result = Raise(CancelledError)])
           ELSE Set(p, AfterLookup(p, id, <<>>, GetDocumentById(id, out),
                                   me.now))
    /\ UNCHANGED <<azure_config, llm, init_error, retriever_top_k>>

\* search_chain.run() has ended inside handle_call_tool.
ToolReturn(p) ==
    /\ proc[p].pc = "done"
    /\ proc[p].tool # ""
    /\ Set(p, [proc[p] EXCEPT !.pc = "tool_done",
                              !.tool_result = ToolCallOutcome(proc[p].outcome)])
    /\ UNCHANGED <<azure_config, llm, init_error, retriever_top_k>>

\* The tool's caller has the result; the next call may begin.
ToolReset(p) ==
    /\ proc[p].pc = "tool_done"
    /\ Set(p, Idle)
    /\ UNCHANGED <<azure_config, llm, init_error, retriever_top_k>>

(***************************************************************************)
(* Specifications.  Spec: calls of run() one after another on the shared   *)
(* client.                                                                 *)
(***************************************************************************)
\* Every step a call p can take, its inputs drawn from the given sets.
Steps(p, queries, search_types, top_ks, formats, latencies, answers) ==
    \/ \E q \in queries, t \in search_types, k \in top_ks, f \in formats :
          Start(p, q, t, k, f)
    \/ ValidateInput(p)
    \/ SearchDocumentsBegin(p)
    \/ ExecutorInvoke(p)
    \/ \E l \in latencies, res \in answers :
          RetrievalEnds(p, l, res)
    \/ PrepareContext(p)
    \/ Summarize(p)
    \/ Analyze(p)
    \/ FormatStructured(p)
    \/ \E l \in latencies, res \in CompletionResults :
          CompletionEnds(p, l, res)
    \/ Cancel(p)
    \/ HandleError(p)
    \/ PostProcess(p)
    \/ Reset(p)

Next ==
    \E p \in SeqProcs :
        Steps(p, Queries, SearchTypes, TopKs, Formats, Latencies,
              RetrievalResults(MaxDocs))

Spec == Init /\ [][Next]_vars

(***************************************************************************)
(* SpecConc: two calls of run() interleaved on the event loop, sharing the *)
(* one client.                                                             *)
(***************************************************************************)
ConcQueries == {<<>>, <<"q">>}

ConcSearchTypes == {"text"}

ConcTopKs == 1..MaxTopK

ConcFormats == Formats

ConcLatencies == {0}

\* The index's ranking of its documents for the queries of SpecConc.
Ranking == <<[page_content |-> "x", metadata |-> [title |-> "A"]],
             [page_content |-> "y", metadata |-> EmptyDict]>>

\* The service answers with the first k documents of the ranking, or fails.
RankedResults(k) ==
    {[kind |-> "ok", docs |-> SubSeq(Ranking, 1, Min(n, Len(Ranking)))] :
        n \in 0..k}
    \cup {[kind |-> "fail", detail |-> "503 Service Unavailable"]}

NextConc ==
    \E p \in Procs :
        Steps(p, ConcQueries, ConcSearchTypes, ConcTopKs, ConcFormats,
              ConcLatencies,
              RankedResults(MaxDocs))

SpecConc == Init /\ [][NextConc]_vars

(***************************************************************************)
(* SpecLive: one call of run() at a time, where the event loop keeps       *)
(* running what is ready and firing the timers that are due, and the       *)
(* services answer only if they choose to.                                 *)
(***************************************************************************)
NextLive ==
    \E p \in SeqProcs :
        Steps(p, ConcQueries, ConcSearchTypes, TopKs, Formats, Latencies,
              RankedResults(MaxDocs))

\* The steps of a run that wait for nothing outside the process.
EngineStep(p) ==
    \/ ValidateInput(p)
    \/ SearchDocumentsBegin(p)
    \/ ExecutorInvoke(p)
    \/ PrepareContext(p)
    \/ Summarize(p)
    \/ Analyze(p)
    \/ FormatStructured(p)
    \/ HandleError(p)
    \/ PostProcess(p)

\* A wait_for timer ends the awaited call before the service answers.
TimerFires(p) ==
    /\ proc[p].pc \in {"in_service", "in_completion"}
    /\ \E l \in Latencies :
          /\ Awaited(proc[p].now, l, proc[p].timers) # "result"
          /\ \/ \E res \in RankedResults(MaxDocs) : RetrievalEnds(p, l, res)
             \/ \E res \in CompletionResults : CompletionEnds(p, l, res)

SpecLive ==
    /\ Init
    /\ [][NextLive]_vars
    /\ WF_vars(\E p \in SeqProcs : EngineStep(p) \/ TimerFires(p))

(***************************************************************************)
(* SpecTool: calls of handle_call_tool one after another.                  *)
(***************************************************************************)
ToolNames == SearchTools \cup {"get_document_context", "list_indexes"}

IdChars == {",", " ", "a", "b"}

DocumentIds == UNION {[1..n -> IdChars] : n \in 0..MaxIdsLen}

\* The arguments a call of the tool may carry.
ToolArguments(name) ==
    CASE name = "search_documents" ->
            [query : {Absent} \cup {<<q>> : q \in ConcQueries},
             top_k : {Absent} \cup {<<k>> : k \in {0, MaxTopK}},
             format_type : {Absent} \cup {<<f>> : f \in Formats \cup {"xml"}},
             document_ids : {<<>>}]
      [] name \in {"search_and_summarize", "search_with_analysis"} ->
            [query : {Absent} \cup {<<q>> : q \in ConcQueries},
             top_k : {Absent} \cup {<<k>> : k \in {0, MaxTopK}},
             format_type : {Absent},
             document_ids : {<<>>}]
      [] name = "get_document_context" ->
            [query : {Absent}, top_k : {Absent}, format_type : {Absent},
             document_ids : DocumentIds]
      [] OTHER -> {NoArguments}

ToolLatencies == {0, 20, RetrievalBudget}

\* The document the index holds for an id.
IdDoc(id) ==
    [page_content |-> IF id = "b" THEN "" ELSE "content of " \o id,
     metadata |-> IF id = "a" THEN [title |-> "A"] ELSE EmptyDict]

\* What retriever.invoke may answer to "id:{id}".
LookupResults(id) ==
    {[kind |-> "ok", docs |-> <<IdDoc(id)>>],
     [kind |-> "ok", docs |-> <<>>],
     [kind |-> "fail", detail |-> "503 Service Unavailable"]}

\* The answers the lookup process p awaits may get.
LookupAnswers(p) ==
    IF proc[p].pc = "lookup_in_service"
    THEN LookupResults(proc[p].ids[Len(proc[p].attempts) + 1])
    ELSE {}

NextTool ==
    \E p \in SeqProcs :
        \/ \E name \in ToolNames :
              \E arguments \in ToolArguments(name) :
                 ToolCall(p, name, arguments)
        \/ ValidateInput(p)
        \/ SearchDocumentsBegin(p)
        \/ ExecutorInvoke(p)
        \/ \E l \in ToolLatencies, res \in RankedResults(MaxDocs) :
              RetrievalEnds(p, l, res)
        \/ PrepareContext(p)
        \/ Summarize(p)
        \/ Analyze(p)
        \/ FormatStructured(p)
        \/ \E l \in ToolLatencies, res \in CompletionResults :
              CompletionEnds(p, l, res)
        \/ Cancel(p)
        \/ HandleError(p)
        \/ PostProcess(p)
        \/ ToolReturn(p)
        \/ LookupBegin(p)
        \/ LookupInvoke(p)
        \/ \E l \in ToolLatencies, res \in LookupAnswers(p) :
              LookupEnds(p, l, res)
        \/ LookupCancel(p)
        \/ ToolReset(p)

SpecTool == Init /\ [][NextTool]_vars

(***************************************************************************)
(* Properties.                                                             *)
(***************************************************************************)
Range(seq) == {seq[i] : i \in DOMAIN seq}

Finished(p) == proc[p].pc = "done"

ReturnedBy(p) == proc[p].outcome.kind = "returned"

\* Empty or whitespace-only.
Blank(query) == \A i \in DOMAIN query : query[i] \in Whitespace

LastVisited(p) ==
    IF proc[p].visited = <<>> THEN "" ELSE proc[p].visited[Len(proc[p].visited)]

\* C1: every run whose query is empty or whitespace-only, whatever its top_k
\* and output_format, ends through handle_error with the error "Query cannot
\* be empty", the text "Error: Query cannot be empty" and success = false.
C1_BlankQueryRejected ==
    \A p \in Procs :
        Finished(p) /\ Blank(proc[p].request.query) =>
            /\ ReturnedBy(p)
            /\ LastVisited(p) = "handle_error"
            /\ proc[p].outcome.state.error = Some("Query cannot be empty")
            /\ proc[p].outcome.response.context = "Error: Query cannot be empty"
            /\ proc[p].outcome.response.success = FALSE

C1_Witness ==
    \E p \in Procs :
        /\ Finished(p) /\ ReturnedBy(p)
        /\ proc[p].request.query # <<>> /\ Blank(proc[p].request.query)
        /\ proc[p].request.top_k <= 0

\* C2 as stated: every run with top_k <= 0, whatever its query, records the
\* error "top_k must be greater than 0" and has success = false.
C2_Original ==
    \A p \in Procs :
        Finished(p) /\ proc[p].request.top_k <= 0 =>
            /\ ReturnedBy(p)
            /\ proc[p].outcome.state.error = Some("top_k must be greater than 0")
            /\ proc[p].outcome.response.success = FALSE

\* C2 (amended): every run with top_k <= 0 whose query is not empty or
\* whitespace-only records the error "top_k must be greater than 0" and has
\* success = false.
C2_NonPositiveTopKRejected ==
    \A p \in Procs :
        Finished(p) /\ proc[p].request.top_k <= 0
                    /\ ~Blank(proc[p].request.query) =>
            /\ ReturnedBy(p)
            /\ proc[p].outcome.state.error = Some("top_k must be greater than 0")
            /\ proc[p].outcome.response.success = FALSE

C2_Witness ==
    \E p \in Procs :
        /\ Finished(p) /\ ReturnedBy(p)
        /\ proc[p].request.top_k <= 0
        /\ ~Blank(proc[p].request.query)

\* C3: in every run that returns a response, success is false exactly when
\* some node assigned state.error during the run.
C3_SuccessIffNoError ==
    \A p \in Procs :
        ReturnedBy(p) =>
            (proc[p].outcome.response.success = FALSE
                <=> proc[p].error_writes > 0)

C3_Witness ==
    \E p \in Procs :
        /\ ReturnedBy(p)
        /\ proc[p].outcome.response.success = FALSE
        /\ proc[p].error_writes > 0
        /\ "prepare_context" \in Range(proc[p].visited)

\* C4: every response with success = false went through handle_error and
\* carries the text "Error: " followed by the recorded error.
C4_FailuresThroughHandleError ==
    \A p \in Procs :
        ReturnedBy(p) /\ proc[p].outcome.response.success = FALSE =>
            /\ "handle_error" \in Range(proc[p].visited)
            /\ proc[p].outcome.response.context
                  = "Error: " \o Str(proc[p].outcome.state.error)

\* C5: when the client's search_documents raises a non-timeout error, the
\* run does not raise: it records "Search error: {detail}", clears the
\* documents, goes through handle_error and returns success = false.
C5_RetrievalFailureHandled ==
    \A p \in Procs :
        Finished(p) /\ proc[p].client_raised # <<>> /\ proc[p].fired = <<>> =>
            /\ ReturnedBy(p)
            /\ proc[p].outcome.state.error
                  = Some("Search error: " \o proc[p].client_raised[1].msg)
            /\ proc[p].outcome.state.documents = <<>>
            /\ LastVisited(p) = "handle_error"
            /\ proc[p].outcome.response.success = FALSE

\* C6: with the retrieval credentials missing, every run with a valid query
\* and top_k returns a response with success = false whose error names the
\* incomplete configuration, instead of raising.
C6_MissingCredentialsSurfaced ==
    \A p \in Procs :
        Finished(p) /\ Truthy(init_error)
                    /\ ~Blank(proc[p].request.query)
                    /\ proc[p].request.top_k > 0 =>
            /\ ReturnedBy(p)
            /\ proc[p].outcome.response.success = FALSE
            /\ proc[p].outcome.state.error
                  = Some("Search error: " \o NotConfiguredError(init_error).msg)

\* C7: a run whose whole-run timer fires never executes handle_error,
\* returns no response and raises the exception "Chain graph execution
\* timed out after 25 seconds".
C7_RunTimeoutDistinct ==
    \A p \in Procs :
        Finished(p) /\ "run" \in Range(proc[p].fired) =>
            /\ ~ReturnedBy(p)
            /\ "handle_error" \notin Range(proc[p].visited)
            /\ proc[p].outcome
                  = Raised(Exc("Exception",
                       "Chain graph execution timed out after 25 seconds"))

\* The errors _search_documents records when its own timer fires.
NodeTimeoutErrors ==
    {Some("Node search timed out after " \o Fmt2(e) \o " seconds") :
        e \in 0..(NodeBudget + 1)}

\* C8: when the retrieval service needs more than the node's 45 units, the
\* run either ends with documents = [] and a "Node search timed out after"
\* error, through handle_error and with a response, or the whole-run budget
\* was exceeded first.
C8_NodeTimeoutOrRunTimeout ==
    \A p \in Procs :
        Finished(p) /\ proc[p].latency # <<>>
                    /\ proc[p].latency[1] > NodeBudget =>
            \/ "run" \in Range(proc[p].fired)
            \/ /\ ReturnedBy(p)
               /\ proc[p].outcome.state.error \in NodeTimeoutErrors
               /\ proc[p].outcome.state.documents = <<>>
               /\ LastVisited(p) = "handle_error"

C8_Witness ==
    \E p \in Procs :
        /\ Finished(p)
        /\ proc[p].latency # <<>> /\ proc[p].latency[1] > NodeBudget
        /\ proc[p].fired = <<"run">>
        /\ proc[p].now = RunBudget

\* C9: of the timers armed around an awaited call, each inner one expires
\* strictly before every timer that encloses it.
C9_BudgetsNested ==
    \A p \in Procs :
        \A i, j \in DOMAIN proc[p].timers :
            i < j => proc[p].timers[j].deadline < proc[p].timers[i].deadline

\* C10: the result count retriever.invoke reads is the top_k of the run
\* that issued the call.
C10_TopKOfIssuingRun ==
    \A p \in Procs :
        proc[p].used_top_k # <<>> =>
            proc[p].used_top_k[1] = proc[p].request.top_k

\* The response of a run executed alone, stage after stage, on its own
\* request, given what its retrieval and completion calls answered.
IsolatedResult(request, retrieval, completion) ==
    LET initial == InitialState(request.query, request.search_type,
                                request.top_k, request.output_format)
        validated == ValidateInputNode(initial)
    IN  IF Truthy(validated.error) THEN HandleErrorNode(validated)
        ELSE LET found == [validated EXCEPT
                             !.documents = DocumentsToDict(retrieval[1].docs)]
                 prepared == PrepareContextNode(found)
                 node == AfterPrepare(RouteToProcessor(prepared))
             IN  IF completion # <<>>
                 THEN StrategyNode(node, prepared, completion[1]).state
                 ELSE CASE node = "summarize_results" ->
                              SummarizeUnavailable(prepared)
                        [] node = "analyze_results" ->
                              AnalyzeUnavailable(prepared)
                        [] node = "format_structured" ->
                              StructuredFallback(prepared)

\* C11: in every interleaving of two runs, each response is the one its
\* run would produce alone from its own request and from what its own
\* retrieval and completion calls answered.
C11_ResponseOfOwnRun ==
    \A p \in Procs :
        ReturnedBy(p) =>
            LET me == proc[p]
                accepted == ValidationError(me.request.query,
                                            me.request.top_k) = None
            IN  /\ accepted => /\ me.retrieval_answer # <<>>
                               /\ me.retrieval_answer[1].kind = "ok"
                /\ ~accepted \/ me.retrieval_answer # <<>> =>
                      me.outcome.response
                        = FinalResult(IsolatedResult(me.request,
                                                     me.retrieval_answer,
                                                     me.completion_answer),
                                      llm)

\* Both runs were in progress together and answered different requests.
C11_Witness ==
    /\ \A p \in Procs : ReturnedBy(p)
    /\ proc["r1"].request # proc["r2"].request
    /\ proc["r1"].outcome.response # proc["r2"].outcome.response
    /\ \A p \in Procs : proc[p].retrieval_answer # <<>>
    /\ \E p \in Procs : proc[p].completion_answer # <<>>

\* The nodes that run before a node does.
NodesBefore(node) ==
    IF node = "search_documents" THEN {"validate_input"}
    ELSE {"validate_input", "search_documents", "prepare_context"}

\* C12: a run cancelled by the caller while suspended in its retrieval or
\* completion call ends there: no node after the suspended one has run, no
\* response is returned, and the run and the tool raise CancelledError
\* instead of producing an error text.
C12_CancellationAborts ==
    \A p \in Procs :
        proc[p].cancelled_at # <<>> =>
            /\ Finished(p)
            /\ Range(proc[p].visited) = NodesBefore(proc[p].cancelled_at[1])
            /\ ~ReturnedBy(p)
            /\ proc[p].outcome = Raised(CancelledError)
            /\ ToolCallOutcome(proc[p].outcome) = Raise(CancelledError)

\* Cancelled in a completion call, after the documents were stored.
C12_Witness ==
    \E p \in Procs :
        /\ proc[p].cancelled_at = <<"format_structured">>
        /\ proc[p].state.documents # <<>>
        /\ proc[p].state.raw_context # ""

StrategyNodes == {"summarize_results", "analyze_results", "format_structured"}

\* The positions of a run where the graph is about to run a node or has
\* ended.
GraphNodes ==
    {"validate_input", "search_documents", "prepare_context", "handle_error",
     END} \cup StrategyNodes

\* The strategy node the specification pairs with each output format.
StrategyOf(output_format) ==
    CASE output_format = "summary" -> "summarize_results"
      [] output_format = "analysis" -> "analyze_results"
      [] output_format = "structured" -> "format_structured"

\* C13: the router after prepare_context returns the state's output_format
\* whatever the rest of the state is, the node that follows prepare_context
\* is the strategy node of the requested format, and no other strategy
\* node runs.
C13_RoutedToRequestedStrategy ==
    \A p \in Procs :
        LET me == proc[p]
        IN  /\ \A f \in Formats :
                  RouteToProcessor([me.state EXCEPT !.output_format = f]) = f
            /\ LastVisited(p) = "prepare_context" /\ me.pc \in GraphNodes =>
                  me.pc = StrategyOf(me.request.output_format)
            /\ me.node \in StrategyNodes =>
                  me.node = StrategyOf(me.request.output_format)
            /\ Range(me.visited) \cap StrategyNodes
                  \subseteq {StrategyOf(me.request.output_format)}

C13_Witness ==
    \E p \in Procs :
        /\ ReturnedBy(p)
        /\ proc[p].request.output_format = "structured"
        /\ LastVisited(p) = "format_structured"
        /\ proc[p].completions = 1

\* C14: the node that follows validate_input is handle_error when
\* state.error is set and search_documents otherwise; the node that follows
\* search_documents is handle_error when state.error is set and
\* prepare_context otherwise; neither router's label changes with the other
\* fields of the state.
C14_RoutedOnErrorOnly ==
    \A p \in Procs :
        LET me == proc[p]
            failed == Truthy(me.state.error)
        IN  /\ LastVisited(p) = "validate_input" /\ me.pc \in GraphNodes =>
                  me.pc = IF failed THEN "handle_error" ELSE "search_documents"
            /\ LastVisited(p) = "search_documents" /\ me.pc \in GraphNodes =>
                  me.pc = IF failed THEN "handle_error" ELSE "prepare_context"
            /\ \A q \in Queries, k \in TopKs, f \in Formats :
                  LET other == [me.state EXCEPT !.query = q, !.top_k = k,
                                                !.output_format = f,
                                                !.documents = <<>>,
                                                !.context = "other"]
                  IN  /\ ShouldContinueAfterValidation(other)
                           = ShouldContinueAfterValidation(me.state)
                      /\ ShouldContinueAfterSearch(other)
                           = ShouldContinueAfterSearch(me.state)
                      /\ ShouldContinueAfterValidation(me.state)
                           = IF failed THEN "error" ELSE "continue"
                      /\ ShouldContinueAfterSearch(me.state)
                           = IF failed THEN "error" ELSE "continue"

\* Validation recorded the top_k error for a non-blank query and the graph
\* went to handle_error.
C14_Witness ==
    \E p \in Procs :
        /\ LastVisited(p) = "validate_input"
        /\ proc[p].pc = "handle_error"
        /\ proc[p].state.error = Some("top_k must be greater than 0")

\* C15: with no model configured, a run that reaches summarize_results or
\* analyze_results records an error containing "not available (LLM not
\* configured)", issues no completion call and returns a response with
\* success = false instead of raising.
C15_NoModelNoCompletion ==
    \A p \in Procs :
        LET me == proc[p]
            reached == Range(me.visited)
                         \cap {"summarize_results", "analyze_results"}
        IN  ~llm /\ reached # {} =>
                /\ me.completions = 0
                /\ me.state.error
                     = Some((IF "summarize_results" \in reached
                             THEN "Summarizer" ELSE "Analyzer")
                            \o " chain is not available (LLM not configured).")
                /\ me.pc \in {END, "done"}
                /\ Finished(p) => /\ ReturnedBy(p)
                                  /\ me.outcome.response.success = FALSE
                                  /\ me.outcome.state.error = me.state.error

C15_Witness ==
    \E p \in Procs :
        /\ ~llm /\ ReturnedBy(p)
        /\ LastVisited(p) = "summarize_results"
        /\ proc[p].outcome.response.documents # <<>>

\* C16: with no model configured, a run that reaches format_structured with
\* N documents returns the text "Found N documents.\n\n" followed by the
\* raw context of its documents, records no error and has success = true.
C16_StructuredFallbackText ==
    \A p \in Procs :
        LET me == proc[p]
        IN  ~llm /\ "format_structured" \in Range(me.visited) =>
                /\ me.state.error = None
                /\ me.completions = 0
                /\ me.state.context
                     = "Found " \o ToString(Len(me.state.documents))
                       \o " documents.\n\n"
                       \o ContextBuilder(me.state.documents)
                /\ Finished(p) =>
                     /\ ReturnedBy(p)
                     /\ me.outcome.response.context = me.state.context
                     /\ me.outcome.response.documents = me.state.documents
                     /\ me.outcome.response.success = TRUE

C16_Witness ==
    \E p \in Procs :
        /\ ~llm /\ ReturnedBy(p)
        /\ LastVisited(p) = "format_structured"
        /\ Len(proc[p].outcome.response.documents) = MaxDocs

\* The name each strategy node gives its stage in the error it records.
StageName(node) ==
    CASE node = "summarize_results" -> "summarization"
      [] node = "analyze_results" -> "analysis"
      [] node = "format_structured" -> "structured formatting"

\* C17: when the model call of a strategy node raises, the run records
\* "Error during {stage}: {detail}" naming the strategy and returns a
\* response with success = false instead of raising.
C17_ModelFailureRecorded ==
    \A p \in Procs :
        LET me == proc[p]
        IN  /\ Finished(p)
            /\ me.completion_answer # <<>>
            /\ me.completion_answer[1].kind = "fail"
            => /\ ReturnedBy(p)
               /\ me.outcome.state.error
                    = Some("Error during "
                           \o StageName(StrategyOf(me.request.output_format))
                           \o ": " \o me.completion_answer[1].detail)
               /\ me.outcome.response.success = FALSE

\* C18: in every response, metadata.used_llm tells whether a model is
\* configured, whatever the output format, whether or not a completion
\* call was made, and whether or not the run ended in handle_error.
C18_UsedLlmIsConfigured ==
    \A p \in Procs :
        ReturnedBy(p) => proc[p].outcome.response.metadata.used_llm = llm

\* A model is configured, and the run ended in handle_error without a
\* completion call.
C18_Witness ==
    \E p \in Procs :
        /\ ReturnedBy(p) /\ llm
        /\ LastVisited(p) = "handle_error"
        /\ proc[p].completions = 0
        /\ proc[p].outcome.response.metadata.used_llm

\* C19: in every response, metadata.total_results is the number of
\* documents of the response, and metadata.query, output_format and
\* search_type are the request's.
C19_MetadataOfRequest ==
    \A p \in Procs :
        ReturnedBy(p) =>
            LET response == proc[p].outcome.response
                request == proc[p].request
            IN  /\ response.metadata.total_results = Len(response.documents)
                /\ response.metadata.query = request.query
                /\ response.metadata.output_format = request.output_format
                /\ response.metadata.search_type = request.search_type

\* Fewer documents than requested, and a search_type other than the default.
C19_Witness ==
    \E p \in Procs :
        /\ ReturnedBy(p)
        /\ Len(proc[p].outcome.response.documents) = 1
        /\ proc[p].request.top_k = MaxTopK
        /\ proc[p].request.search_type = "hybrid"
        /\ proc[p].completions = 1

\* C20: prepare_context records no error and leaves a non-empty raw
\* context, which is "No documents found for the given query." exactly when
\* there are no documents; run again on its result it changes nothing.
C20_PrepareContextTotal ==
    \A p \in Procs :
        LET me == proc[p]
        IN  LastVisited(p) = "prepare_context" =>
                /\ me.pc \in StrategyNodes \/ me.node \in StrategyNodes
                      \/ me.fired # <<>> \/ me.cancelled_at # <<>>
                /\ me.state.error = None
                /\ me.state.raw_context # ""
                /\ me.state.raw_context
                       = "No documents found for the given query."
                     <=> me.state.documents = <<>>
                /\ PrepareContextNode(me.state) = me.state

C20_Witness ==
    \E p \in Procs :
        /\ LastVisited(p) = "prepare_context"
        /\ proc[p].pc \in StrategyNodes
        /\ proc[p].state.documents = <<>>
        /\ proc[p].state.raw_context = "No documents found for the given query."

\* "{title or 'Document {i}'}": the title when the document has a
\* non-empty one, else the default.
TitleOrDefault(doc, i) ==
    IF "title" \in DOMAIN doc /\ doc.title # "" THEN doc.title
    ELSE "Document " \o ToString(i)

\* The sections i.. of the raw context, as specified.
RECURSIVE SectionsFrom(_, _)
SectionsFrom(documents, i) ==
    LET section == "## " \o TitleOrDefault(documents[i], i) \o "\n\n"
                        \o documents[i].content
    IN  IF i = Len(documents) THEN section
        ELSE section \o "\n\n---\n\n" \o SectionsFrom(documents, i + 1)

\* C21: for a non-empty document list the raw context is one section per
\* document, in order, "## {title or 'Document {i}'}", a blank line and
\* the content, joined by "\n\n---\n\n"; the default title stands in
\* whenever the document has no usable title.
C21_SectionPerDocument ==
    \A p \in Procs :
        /\ "prepare_context" \in Range(proc[p].visited)
        /\ proc[p].state.documents # <<>>
        => proc[p].state.raw_context = SectionsFrom(proc[p].state.documents, 1)

\* C22: the documents of a response are those its retrieval call answered,
\* as many and in the same order.
C22_DocumentOrderPreserved ==
    \A p \in Procs :
        ReturnedBy(p) /\ proc[p].retrieval_answer # <<>> =>
            LET answered == proc[p].retrieval_answer[1].docs
                documents == proc[p].outcome.response.documents
            IN  /\ Len(documents) = Len(answered)
                /\ \A i \in DOMAIN answered :
                      /\ documents[i].content = answered[i].page_content
                      /\ documents[i]
                           = Merge([content |-> answered[i].page_content],
                                   answered[i].metadata)

\* Two different documents, returned second-ranked first.
C22_Witness ==
    \E p \in Procs :
        /\ ReturnedBy(p)
        /\ Len(proc[p].outcome.response.documents) = 2
        /\ proc[p].outcome.response.documents[1].content = "y"
        /\ proc[p].outcome.response.documents[2].content = "x"

\* The node sequences the stage graph allows.
LegalPaths ==
    {<<"validate_input", "handle_error">>,
     <<"validate_input", "search_documents", "handle_error">>}
    \cup {<<"validate_input", "search_documents", "prepare_context", n>> :
             n \in StrategyNodes}

IsPrefix(a, b) == Len(a) <= Len(b) /\ a = SubSeq(b, 1, Len(a))

\* C29: the nodes a run has executed are the beginning of one path of the
\* graph, each node once and in the graph's order; the run has issued at
\* most one retrieval call and at most one completion call; and a run that
\* reached the end of the graph executed exactly one of the strategy nodes
\* and handle_error.
C29_StagesInSequence ==
    \A p \in Procs :
        LET me == proc[p]
        IN  /\ \E path \in LegalPaths : IsPrefix(me.visited, path)
            /\ me.retrievals <= 1
            /\ me.completions <= 1
            /\ me.pc = END \/ ReturnedBy(p) =>
                  Cardinality({i \in DOMAIN me.visited :
                                 me.visited[i]
                                   \in StrategyNodes \cup {"handle_error"}}) = 1

C29_Witness ==
    \E p \in Procs :
        /\ ReturnedBy(p)
        /\ Len(proc[p].visited) = 4
        /\ proc[p].retrievals = 1
        /\ proc[p].completions = 1

\* C30: after a strategy node the graph ends, also when the node recorded
\* an error: handle_error does not run, and the response carries the text
\* the state held before the node, the initial one.
C30_StrategyEndsRun ==
    \A p \in Procs :
        LET me == proc[p]
        IN  /\ LastVisited(p) \in StrategyNodes /\ me.pc \in GraphNodes =>
                  me.pc = END
            /\ /\ ReturnedBy(p)
               /\ Range(me.visited) \cap StrategyNodes # {}
               /\ Truthy(me.outcome.state.error)
               => /\ "handle_error" \notin Range(me.visited)
                  /\ me.outcome.response.context
                       = InitialState(me.request.query, me.request.search_type,
                                      me.request.top_k,
                                      me.request.output_format).context

\* The model call of format_structured failed, and the run returned.
C30_Witness ==
    \E p \in Procs :
        /\ ReturnedBy(p)
        /\ LastVisited(p) = "format_structured"
        /\ proc[p].completion_answer # <<>>
        /\ proc[p].completion_answer[1].kind = "fail"
        /\ proc[p].outcome.response.context = ""

\* C28: every run that was entered eventually finishes, whether or not the
\* services ever answer: it returns a response built after a strategy node
\* or handle_error, or it raises.
C28_RunTerminates ==
    \A p \in SeqProcs :
        (proc[p].pc # "idle") ~>
            /\ Finished(p)
            /\ \/ proc[p].outcome.kind = "raised"
               \/ /\ ReturnedBy(p)
                  /\ LastVisited(p) \in StrategyNodes \cup {"handle_error"}

\* The completion service did not answer within the run's budget, and the
\* run ended.
C28_Witness ==
    \E p \in SeqProcs :
        /\ Finished(p)
        /\ proc[p].completions = 1
        /\ proc[p].completion_answer = <<>>
        /\ proc[p].cancelled_at = <<>>
        /\ proc[p].outcome.kind = "raised"

\* The process p has a tool call that has ended.
ToolEnded(p) == proc[p].pc = "tool_done"

\* C23: every call of a tool, whatever its name and however the engine
\* ends, ends with a text for its caller, unless the caller cancelled it and
\* CancelledError is raised; a call that is still running when 30 units
\* have passed ends at 30 with the "Tool call timed out" text.
C23_ToolAlwaysAnswersText ==
    \A p \in SeqProcs :
        ToolEnded(p) =>
            /\ \/ proc[p].tool_result.kind = "text"
               \/ /\ proc[p].tool_result = Raise(CancelledError)
                  /\ proc[p].cancelled_at # <<>>
            /\ proc[p].now <= ToolBudget
            /\ proc[p].now = ToolBudget =>
                  /\ proc[p].fired # <<>>
                  /\ proc[p].fired[Len(proc[p].fired)] = "tool"
                  /\ proc[p].tool_result =
                        ToolText("Error: Tool call timed out after 30.00s. "
                                 \o "The search service may be experiencing delays.")

\* The 30-unit timer fired during the second lookup of a call.
C23_Witness ==
    \E p \in SeqProcs :
        /\ ToolEnded(p)
        /\ "tool" \in Range(proc[p].fired)
        /\ Len(proc[p].attempts) = 1
        /\ proc[p].tool_result.kind = "text"

\* Only commas and whitespace.
NoIdIn(document_ids) ==
    \A i \in DOMAIN document_ids : document_ids[i] \in Whitespace \cup {","}

\* C24: a get_document_context call whose id list is empty or holds only
\* commas and whitespace ends with "Error: No valid document IDs provided"
\* and makes no retrieval call and no lookup.
C24_NoValidIds ==
    \A p \in SeqProcs :
        /\ proc[p].tool = "get_document_context"
        /\ NoIdIn(proc[p].arguments.document_ids)
        => /\ ToolEnded(p)
           /\ proc[p].tool_result =
                 ToolText("Error: No valid document IDs provided")
           /\ proc[p].retrievals = 0
           /\ proc[p].attempts = <<>>

C24_Witness ==
    \E p \in SeqProcs :
        /\ proc[p].tool = "get_document_context"
        /\ proc[p].arguments.document_ids = <<" ", ",", " ">>
        /\ ToolEnded(p)
        /\ proc[p].retrievals = 0

\* The service answered the lookup with a document.
Resolved(attempt) ==
    /\ attempt.answer # <<>>
    /\ attempt.answer[1].kind = "ok"
    /\ attempt.answer[1].docs # <<>>

\* The documents of the lookups that resolved, in the order of the lookups.
ResolvedDocs(attempts) ==
    LET resolved == SelectSeq(attempts, Resolved)
    IN  [i \in DOMAIN resolved |-> resolved[i].answer[1].docs[1]]

\* get_document_context_tool has looked up every id of the call of p.
LookupComplete(p) ==
    /\ proc[p].tool = "get_document_context"
    /\ proc[p].ids # <<>>
    /\ Len(proc[p].attempts) = Len(proc[p].ids)

\* C25: get_document_context_tool looks up the ids in input order, each
\* once, whether or not earlier lookups failed; when it has looked up all
\* of them its result is the blocks of exactly the ids the service answered
\* with a document, in input order, and it is an error text only when no id
\* resolved.
C25_PartialLookupFailure ==
    \A p \in SeqProcs :
        LET me == proc[p]
        IN  /\ Len(me.attempts) <= Len(me.ids)
            /\ \A i \in DOMAIN me.attempts : me.attempts[i].id = me.ids[i]
            /\ me.retrievals <= Len(me.attempts) + 1
            /\ LookupComplete(p) =>
                  /\ me.ids = ParseIds(me.arguments.document_ids)
                  /\ me.retrievals =
                        IF Truthy(init_error) THEN 0 ELSE Len(me.ids)
                  /\ ToolEnded(p)
                  /\ me.tool_result.kind = "text"
                  /\ me.tool_result.text =
                        IF ResolvedDocs(me.attempts) = <<>>
                        THEN "No documents found for the provided IDs"
                        ELSE JoinBlocks(ResolvedDocs(me.attempts))

\* The first id failed and the second resolved.
C25_Witness ==
    \E p \in SeqProcs :
        /\ LookupComplete(p)
        /\ Len(proc[p].ids) = 2
        /\ ~Resolved(proc[p].attempts[1])
        /\ proc[p].attempts[1].answer # <<>>
        /\ proc[p].attempts[1].answer[1].kind = "fail"
        /\ Resolved(proc[p].attempts[2])
        /\ proc[p].tool_result.text = LookupBlock(IdDoc(proc[p].ids[2]))

\* C26: every run() the tools start has an output_format among summary,
\* analysis and structured, so that the router after prepare_context always
\* returns a label that has a node.
C26_FormatValidatedAtBoundary ==
    \A p \in SeqProcs :
        /\ proc[p].started # <<>> =>
              proc[p].started[1].output_format \in Formats
        /\ LastVisited(p) = "prepare_context" =>
              RouteToProcessor(proc[p].state) \in RouteLabels

\* C27: a search_documents call without format_type runs the engine with
\* the default its inputSchema gives, "summary", and one without top_k runs
\* it with top_k 5.
C27_SchemaDefaultsApplied ==
    \A p \in SeqProcs :
        proc[p].tool = "search_documents" /\ proc[p].started # <<>> =>
            /\ proc[p].arguments.format_type = Absent =>
                  proc[p].started[1].output_format = SchemaDefaultFormatType
            /\ proc[p].arguments.top_k = Absent =>
                  proc[p].started[1].top_k = SchemaDefaultTopK

\* The request of p fails _validate_input: blank query or top_k <= 0.
FailsValidation(p) ==
    Blank(proc[p].request.query) \/ proc[p].request.top_k <= 0

\* C31: in a run whose request fails validate_input, no retrieval call and
\* no completion call is ever made, the only nodes that run are
\* validate_input and handle_error, the documents stay empty, and the run
\* ends by returning a response whose documents list is empty.
C31_ValidationFailureInsideGraph ==
    \A p \in Procs :
        proc[p].pc # "idle" /\ FailsValidation(p) =>
            /\ proc[p].retrievals = 0
            /\ proc[p].completions = 0
            /\ proc[p].state.documents = <<>>
            /\ Range(proc[p].visited) \subseteq {"validate_input", "handle_error"}
            /\ Finished(p) =>
                  /\ ReturnedBy(p)
                  /\ proc[p].visited = <<"validate_input", "handle_error">>
                  /\ proc[p].outcome.response.documents = <<>>

\* A run with a usable query and top_k = 0 has returned.
C31_Witness ==
    \E p \in Procs :
        /\ Finished(p) /\ ReturnedBy(p)
        /\ ~Blank(proc[p].request.query)
        /\ proc[p].request.top_k = 0
        /\ proc[p].outcome.response.success = FALSE

\* C32: when the retrieval service needs more than the 25 units of the
\* client's inner wait, search_documents raises "Azure Search timed out
\* after ...", a message no other failure of the client has, and the
\* client's 30-unit wait is never the timer that fires.
C32_RetrievalTimeoutReported ==
    \A p \in Procs :
        /\ "client" \notin Range(proc[p].fired)
        /\ \A d \in {"503 Service Unavailable", ""}, e \in 0..ClientBudget :
              ClientTimeoutError(e) # ClientSearchError(d)
        /\ proc[p].latency # <<>> /\ proc[p].latency[1] > RetrievalBudget =>
              proc[p].client_raised = <<ClientTimeoutError(RetrievalBudget)>>

\* C33: when get_document_context_tool has looked up every id and none
\* resolved to a document, whether the lookups failed or returned nothing,
\* its result is "No documents found for the provided IDs"; and a
\* get_document_context call never ends with an exception unless its caller
\* cancelled it: failures of the lookups end as text.
C33_NoDocumentsFound ==
    \A p \in SeqProcs :
        proc[p].tool = "get_document_context" =>
            /\ LookupComplete(p)
                  /\ (\A i \in DOMAIN proc[p].attempts :
                         ~Resolved(proc[p].attempts[i])) =>
                  proc[p].tool_result =
                      ToolText("No documents found for the provided IDs")
            /\ ToolEnded(p) /\ proc[p].cancelled_at = <<>> =>
                  proc[p].tool_result.kind = "text"

\* Two ids, one whose lookup failed and one the index does not hold.
C33_Witness ==
    \E p \in SeqProcs :
        /\ LookupComplete(p)
        /\ ToolEnded(p)
        /\ Len(proc[p].attempts) = 2
        /\ proc[p].attempts[1].answer # <<>>
        /\ proc[p].attempts[1].answer[1].kind = "fail"
        /\ proc[p].attempts[2].answer # <<>>
        /\ proc[p].attempts[2].answer[1].kind = "ok"
        /\ proc[p].attempts[2].answer[1].docs = <<>>

\* C34: handle_error runs only in runs whose state.error already holds a
\* non-empty text, so that no response of run() carries the text of an
\* absent error, "Error: Unknown error occurred" or "Error: None".
C34_HandleErrorHasError ==
    \A p \in Procs :
        /\ proc[p].pc = "handle_error" => Truthy(proc[p].state.error)
        /\ "handle_error" \in Range(proc[p].visited) =>
              /\ Truthy(proc[p].state.error)
              /\ proc[p].state.context = "Error: " \o proc[p].state.error[1]
        /\ ReturnedBy(p) =>
              proc[p].outcome.response.context
                  \notin {"Error: Unknown error occurred", "Error: None"}

\* handle_error ran and the run returned the text of the recorded error.
C34_Witness ==
    \E p \in Procs :
        /\ ReturnedBy(p)
        /\ LastVisited(p) = "handle_error"
        /\ proc[p].outcome.state.error = Some("top_k must be greater than 0")
        /\ proc[p].outcome.response.context
              = "Error: top_k must be greater than 0"

\* The step continues the run of p that is in progress.
SameRun(p) == proc[p].pc \notin {"idle", "done"} /\ proc'[p].pc # "idle"

\* C35: within a run state.error starts unset, is assigned at most once,
\* and once set keeps its value in every later step of the run, up to the
\* state the response is built from.
C35_ErrorMonotonic ==
    /\ [](\A p \in Procs :
            /\ proc[p].pc = "validate_input" => proc[p].state.error = None
            /\ proc[p].error_writes <= 1
            /\ proc[p].error_writes = 0 <=> proc[p].state.error = None
            /\ ReturnedBy(p) =>
                  proc[p].outcome.state.error = proc[p].state.error)
    /\ [][\A p \in Procs :
            SameRun(p) /\ proc[p].state.error # None =>
                proc'[p].state.error = proc[p].state.error]_vars

\* An error recorded by a strategy node, after two nodes that recorded
\* none.
C35_Witness ==
    \E p \in Procs :
        /\ ReturnedBy(p)
        /\ LastVisited(p) = "format_structured"
        /\ proc[p].error_writes = 1
        /\ Truthy(proc[p].outcome.state.error)

\* C36: in a run in which handle_error has run, the documents are empty,
\* prepare_context has not run, no completion call was made, and the
\* response has no documents and total_results 0; and a response with
\* success = false and documents comes from a run that ended in a strategy
\* node, which recorded the error.
C36_HandleErrorWithoutDocuments ==
    \A p \in Procs :
        /\ "handle_error" \in Range(proc[p].visited) =>
              /\ proc[p].state.documents = <<>>
              /\ "prepare_context" \notin Range(proc[p].visited)
              /\ proc[p].completions = 0
              /\ ReturnedBy(p) =>
                    /\ proc[p].outcome.response.documents = <<>>
                    /\ proc[p].outcome.response.metadata.total_results = 0
        /\ /\ ReturnedBy(p)
           /\ proc[p].outcome.response.success = FALSE
           /\ proc[p].outcome.response.documents # <<>>
           => /\ LastVisited(p) \in StrategyNodes
              /\ "handle_error" \notin Range(proc[p].visited)
              /\ "prepare_context" \in Range(proc[p].visited)

\* handle_error ran after a blank query and the response was returned.
C36_Witness ==
    \E p \in Procs :
        /\ ReturnedBy(p)
        /\ "handle_error" \in Range(proc[p].visited)
        /\ Blank(proc[p].request.query)
        /\ proc[p].request.top_k > 0
        /\ proc[p].outcome.response.metadata.total_results = 0

\* A credential is absent: one of the retrieval service's, or the model's.
CredentialAbsent ==
    \/ ~(azure_config.endpoint /\ azure_config.api_key
                               /\ azure_config.index_name)
    \/ ~llm

\* C37: the server starts whatever credentials are absent, and then holds a
\* non-empty warning list; while it does, whether a retrieval credential or
\* only the model's is absent, a call of any of the three search tools ends
\* at once with the "Search functionality is disabled" text and run() is
\* never entered, while a get_document_context call with ids is not gated:
\* it calls the retrieval client for its ids.
C37_DisabledSearchTools ==
    /\ CredentialAbsent <=> InitWarnings(azure_config, llm) # <<>>
    /\ \A p \in SeqProcs :
          CredentialAbsent =>
              /\ proc[p].tool \in SearchTools =>
                    /\ ToolEnded(p)
                    /\ proc[p].tool_result =
                          ToolText(DisabledText(InitWarnings(azure_config, llm)))
                    /\ proc[p].started = <<>>
                    /\ proc[p].visited = <<>>
                    /\ proc[p].retrievals = 0
              /\ proc[p].tool = "get_document_context"
                     /\ ~NoIdIn(proc[p].arguments.document_ids) =>
                    /\ proc[p].ids # <<>>
                    /\ proc[p].tool_result #
                          ToolText(DisabledText(InitWarnings(azure_config, llm)))
                    /\ LookupComplete(p) =>
                          proc[p].retrievals =
                              IF Truthy(init_error) THEN 0 ELSE Len(proc[p].ids)

\* Only the model's key is absent, and a search tool was called with a
\* usable query.
C37_Witness ==
    \E p \in SeqProcs :
        /\ ~llm /\ ~Truthy(init_error)
        /\ proc[p].tool = "search_and_summarize"
        /\ proc[p].arguments.query = <<<<"q">>>>
        /\ ToolEnded(p)
        /\ proc[p].tool_result.kind = "text"

\* The top_k the operation in progress of p asks the client for: 1 for an
\* id lookup, the run's top_k otherwise.
RequestedTopK(p) ==
    IF proc[p].tool = "get_document_context" THEN 1
    ELSE proc[p].started[1].top_k

\* C38: when the operations on the shared client follow one another, the
\* shared retriever's top_k is the operation's own top_k (1 for an id
\* lookup) from the moment the client is called to the moment
\* retriever.invoke reads it, whatever value earlier operations left.
C38_SequentialTopK ==
    \A p \in SeqProcs :
        /\ proc[p].pc \in {"executor_queued", "lookup_queued"} =>
              retriever_top_k = RequestedTopK(p)
        /\ proc[p].pc \in {"in_service", "lookup_in_service"} =>
              proc[p].used_top_k = <<RequestedTopK(p)>>
        /\ proc[p].tool \in SearchTools /\ proc[p].used_top_k # <<>> =>
              proc[p].used_top_k[1] = Arg(proc[p].arguments.top_k, 5)

\* The retrieval of a search_documents call with top_k = MaxTopK is invoked
\* with that value, on a retriever that was built with another.
C38_Witness ==
    \E p \in SeqProcs :
        /\ proc[p].pc = "in_service"
        /\ proc[p].tool = "search_documents"
        /\ proc[p].arguments.top_k = <<MaxTopK>>
        /\ proc[p].used_top_k = <<MaxTopK>>

\* What run() raises when its 25-unit budget expires, as the tool words it.
RunTimeoutTexts ==
    {"Error: Tool call failed: " \o msg :
        msg \in {"Chain graph execution timed out after 25 seconds",
                 "name 'sys' is not defined"}}

\* C39: a call of one of the three search tools whose run exceeds its 25
\* units ends when they expire, with a text that begins "Error: Tool call
\* failed: "; the tool's own 30-unit timer never fires in a search tool, and
\* the "Tool call timed out" text is the result of get_document_context
\* calls only.
C39_RunTimeoutBeforeToolTimeout ==
    \A p \in SeqProcs :
        /\ proc[p].tool \in SearchTools =>
              /\ "tool" \notin Range(proc[p].fired)
              /\ proc[p].now <= RunBudget
              /\ "run" \in Range(proc[p].fired) =>
                    /\ proc[p].now = RunBudget
                    /\ proc[p].outcome.kind = "raised"
                    /\ ToolEnded(p) => proc[p].tool_result \in
                                          {ToolText(t) : t \in RunTimeoutTexts}
        /\ /\ ToolEnded(p)
           /\ proc[p].tool_result \in
                 {ToolText(ToolTimeoutText(e)) : e \in 0..(ToolBudget + 1)}
           => /\ proc[p].tool = "get_document_context"
              /\ proc[p].now = ToolBudget

\* The run of a search_with_analysis call was still in its completion call
\* when its 25 units expired.
C39_Witness ==
    \E p \in SeqProcs :
        /\ proc[p].tool = "search_with_analysis"
        /\ ToolEnded(p)
        /\ proc[p].fired = <<"run">>
        /\ proc[p].visited =
              <<"validate_input", "search_documents", "prepare_context">>
        /\ proc[p].tool_result.kind = "text"

====
